---- MODULE Spec2Model ----
(***************************************************************************)
(* Upload form and job-status poller of static/js/main.js; report button,  *)
(* chatbot widget and chat of static/js/interactive.js.                    *)
(*                                                                         *)
(* Every 'submit' event runs the submit handler once; the handler's        *)
(* closure (its pending fetch, its jobId, its timer) is one element of     *)
(* `attempts`.  The DOM nodes the handlers write are single variables      *)
(* shared by all closures.  The server and the user are the environment:   *)
(* their inputs are drawn from the small sets below.                       *)
(*                                                                         *)
(* An optional JSON field is a sequence: <<>> when the field is absent     *)
(* (JavaScript undefined), <<v>> when it is present with value v.          *)
(***************************************************************************)
EXTENDS Integers, Sequences, FiniteSets, TLC

(***************************************************************************)
(* Bounds of the model.                                                    *)
(***************************************************************************)
MaxSubmits == 2      \* submit events per page instance
MaxPolls == 3        \* GET /status requests per page instance
MaxClockSubmits == 1 \* submit events per page instance, with the clock running
TickMs == 1000       \* milliseconds that pass in one step of the clock
MaxAge == 3000       \* the age of a request is not counted beyond this
MaxToasts == 2       \* success toasts per page instance
MaxSends == 2        \* chat requests per page instance
MaxJumpToasts == 2   \* jump toasts on show at once
PlaybackStep == 750  \* ms of playback between two timeupdate events

(***************************************************************************)
(* Program constants.                                                      *)
(***************************************************************************)
maxSize == 300 * 1024 * 1024
PollDelay == 2000

NoFile == -1         \* videoInput.files[0] is undefined
FileSizes == {NoFile, maxSize, maxSize + 1}

Min(x, y) == IF x < y THEN x ELSE y
Max(x, y) == IF x > y THEN x ELSE y

AlertTooLarge == <<"File size exceeds the maximum limit of 300MB.">>
UploadPrefix == "Error uploading video: "
StatusPrefix == "Error checking job status: "
NotOkMessage == "Network response was not ok"
DefaultFailed == "Processing failed"
FetchFailed == "Failed to fetch"          \* message of a rejected fetch()
JsonFailed == "Unexpected token <"        \* message of a rejected response.json()

LabelUpload == "Upload and Analyze"
LabelProcessing == "Processing..."
InitialMessage == <<"initial">>

(***************************************************************************)
(* JavaScript helpers.                                                     *)
(***************************************************************************)
\* truthiness of an optional string field: undefined and "" are falsy
TruthyStr(f) == f # <<>> /\ f[1] # ""

\* truthiness of an optional numeric field: undefined and 0 are falsy
TruthyNum(f) == f # <<>> /\ f[1] # 0

\* `${jobId}` inside a template literal
TemplateStr(f) == IF f = <<>> THEN "undefined" ELSE f[1]

\* Math.round of a time given in tenths of a second
MathRound(t) == (t + 5) \div 10

StatusUrl(jobId) == <<"/status/", TemplateStr(jobId)>>
ResultsUrl(jobId) == <<"/results/", TemplateStr(jobId)>>

(***************************************************************************)
(* Inputs from the server.                                                 *)
(***************************************************************************)
ServerJobIds == <<"j1", "j2", "j3", "j4", "j5", "j6">>
ErrorTexts == {<<>>, <<"">>, <<"X">>}
ProcessingTimes == {<<>>, <<0>>, <<14>>}

VARIABLES
    attempts,            \* one record per run of the submit handler
    processingDisplay,   \* processingStatus.style.display
    submitDisabled,      \* #upload-button .disabled
    submitLabel,         \* #upload-button .innerHTML
    processingText,      \* #processing-message .textContent
    locationHref,        \* window.location.href
    \* static/js/interactive.js: the regenerate-report button
    regenDisabled,       \* regenerateButton.disabled
    regenLabel,          \* regenerateButton.innerHTML
    reportContent,       \* reportContent.innerHTML
    toasts,              \* success toasts appended to document.body
    regenInflight,       \* POST /api/regenerate-report requests not yet settled
    \* static/js/interactive.js: the chatbot widget
    isChatbotMinimized,  \* let isChatbotMinimized
    minimizedClass,      \* chatbotContainer.classList has 'chatbot-minimized'
    bodyDisplay,         \* chatbotBody.style.display
    notificationDisplay, \* notification.style.display
    notificationPulse,   \* notification.classList has 'pulse'
    chatbotDisplay,      \* chatbotContainer.style.display
    alertTimer,          \* the 3000 ms fight-alert timer: "pending", "fired"
    \* static/js/interactive.js: the chat
    chatMessages,        \* children of #chat-messages, in document order
    userInput,           \* userMessageInput.value, a sequence of characters
    chatInflight,        \* POST /api/chat requests not yet settled
    chatSent,            \* POST /api/chat requests issued
    \* static/js/videoprocessing.js: the timeline and the player
    selectedSegment,     \* let selectedSegment: 0 for null, or the segment's index
    outline,             \* segment.style.outline of every timeline segment
    segmentInfo,         \* the info panel: its texts, badge class and display
    jumpTime,            \* data-time of #jump-to-segment: <<>> absent, <<ms>>
    duration,            \* player.duration(): <<>> for NaN, <<ms>>
    currentTime,         \* player.currentTime(), in ms
    paused,              \* the player is not playing
    jumpToasts           \* jump toasts in document.body

uploadVars == <<attempts, processingDisplay, submitDisabled, submitLabel,
                processingText, locationHref>>

regenVars == <<regenDisabled, regenLabel, reportContent, toasts, regenInflight>>

widgetVars == <<isChatbotMinimized, minimizedClass, bodyDisplay, notificationDisplay,
                notificationPulse, chatbotDisplay, alertTimer>>

chatVars == <<chatMessages, userInput, chatInflight, chatSent>>

videoVars == <<selectedSegment, outline, segmentInfo, jumpTime, duration, currentTime,
               paused, jumpToasts>>

vars == <<uploadVars, regenVars, widgetVars, chatVars, videoVars>>

dom == <<processingDisplay, submitDisabled, submitLabel, processingText, locationHref>>

Attempts == 1..Len(attempts)

\* bodies of the response to the a-th upload: {job_id}, {}, {error: ""} and
\* {error: "X"}; the server issues every job id once, so the id is named
\* after the upload it answers
UploadBodies(a) ==
    {[error |-> <<>>, job_id |-> <<ServerJobIds[a]>>]}
        \cup [error : ErrorTexts, job_id : {<<>>}]

UploadResponses(a) ==
    {[kind |-> "neterr"]}
        \cup [kind : {"http"}, ok : BOOLEAN, json : {FALSE}]
        \cup [kind : {"http"}, ok : BOOLEAN, json : {TRUE}, data : UploadBodies(a)]

\* bodies of a /status response; the fields the handler does not read for a
\* given status are left out
StatusBodies ==
    [status : {<<"completed">>}, processing_time : {<<>>}, error : {<<>>}]
        \cup [status : {<<"failed">>}, processing_time : {<<>>}, error : ErrorTexts]
        \cup [status : {<<"processing">>}, processing_time : ProcessingTimes, error : {<<>>}]
        \cup [status : {<<"queued">>, <<>>}, processing_time : {<<>>}, error : {<<>>}]

\* the body of an error answer, sent with a non-success HTTP status
StatusErrorBodies ==
    [status : {<<>>}, processing_time : {<<>>}, error : {<<"X">>}]

\* checkStatus does not read response.ok
StatusResponses ==
    {[kind |-> "neterr"]}
        \cup [kind : {"http"}, ok : {TRUE}, json : {FALSE}]
        \cup [kind : {"http"}, ok : {TRUE}, json : {TRUE}, data : StatusBodies]
        \cup [kind : {"http"}, ok : {FALSE}, json : {TRUE}, data : StatusErrorBodies]

\* the closure of one run of the submit handler, with what it has done so far
NewAttempt ==
    [phase |-> "start",
     uploads |-> 0,        \* POST /upload requests issued
     jobId |-> <<>>,       \* argument of pollJobStatus
     alert |-> <<>>,       \* text passed to alert()
     timerLeft |-> 0,      \* ms until the pending setTimeout is due
     reqs |-> 0,           \* GET /status requests issued
     reqUrl |-> <<>>,      \* url of the last GET /status request
     age |-> 0,            \* ms since pollJobStatus or the last GET /status, while polling
     handled |-> 0]        \* non-terminal status responses handled

RECURSIVE SumReqs(_)
SumReqs(s) == IF s = <<>> THEN 0 ELSE Head(s).reqs + SumReqs(Tail(s))

\* the upload page as loaded: no attempt yet, the processing panel hidden,
\* the button enabled
UploadInit ==
    /\ attempts = <<>>
    /\ processingDisplay = "none"
    /\ submitDisabled = FALSE
    /\ submitLabel = LabelUpload
    /\ processingText = InitialMessage
    /\ locationHref = <<"/">>

(***************************************************************************)
(* form 'submit' handler                                                   *)
(***************************************************************************)
\* the size taken in megabytes and compared with a limit in bytes
TooLargeInMegabytes(size) == size # NoFile /\ size \div (1024 * 1024) > maxSize

\* the size check of the handler
TooLarge(size) == size # NoFile /\ size > maxSize

\* The handler reads the selected file and nothing else: it does not look at
\* the button's disabled flag or at an attempt in flight, so every submit
\* event dispatched on the form runs it in full.
Submit(size) ==
    /\ Len(attempts) < MaxSubmits
    /\ IF TooLarge(size)
       THEN /\ attempts' = Append(attempts,
                    [NewAttempt EXCEPT !.phase = "rejected", !.alert = AlertTooLarge])
            /\ UNCHANGED <<processingDisplay, submitDisabled, submitLabel>>
       ELSE /\ processingDisplay' = "block"
            /\ submitDisabled' = TRUE
            /\ submitLabel' = LabelProcessing
            /\ attempts' = Append(attempts,
                    [NewAttempt EXCEPT !.phase = "uploading", !.uploads = 1])
    /\ UNCHANGED <<processingText, locationHref>>

\* the .then/.then chain on the /upload fetch: the Error it throws, or the
\* job id it passes to pollJobStatus
UploadChain(resp) ==
    IF resp.kind = "neterr" THEN [throws |-> TRUE, message |-> FetchFailed]
    ELSE IF ~resp.ok THEN [throws |-> TRUE, message |-> NotOkMessage]
    ELSE IF ~resp.json THEN [throws |-> TRUE, message |-> JsonFailed]
    ELSE IF TruthyStr(resp.data.error)
         THEN [throws |-> TRUE, message |-> resp.data.error[1]]
    ELSE [throws |-> FALSE, jobId |-> resp.data.job_id]

\* a .catch placed before the last .then: polling starts after the alert
UploadCatchThenPoll(a, message) ==
    /\ attempts' = [attempts EXCEPT ![a].phase = "timer",
                                    ![a].timerLeft = PollDelay,
                                    ![a].alert = <<UploadPrefix, message>>]
    /\ processingDisplay' = "none"
    /\ submitDisabled' = FALSE
    /\ submitLabel' = LabelUpload
    /\ UNCHANGED <<processingText, locationHref>>

\* the .catch of the submit handler
UploadCatch(a, message) ==
    /\ attempts' = [attempts EXCEPT ![a].phase = "uploadFailed",
                                    ![a].alert = <<UploadPrefix, message>>]
    /\ processingDisplay' = "none"
    /\ submitDisabled' = FALSE
    /\ submitLabel' = LabelUpload
    /\ UNCHANGED <<processingText, locationHref>>

\* a pollJobStatus that calls checkStatus() at once
pollJobStatusImmediate(a, jobId) ==
    /\ attempts' = [attempts EXCEPT ![a].phase = "timer",
                                    ![a].jobId = jobId,
                                    ![a].timerLeft = 0]
    /\ UNCHANGED dom

\* pollJobStatus(jobId): only arms the first timer
pollJobStatus(a, jobId) ==
    /\ attempts' = [attempts EXCEPT ![a].phase = "timer",
                                    ![a].jobId = jobId,
                                    ![a].timerLeft = PollDelay]
    /\ UNCHANGED dom

UploadResponse(a, resp) ==
    /\ attempts[a].phase = "uploading"
    /\ LET r == UploadChain(resp) IN
         IF r.throws THEN UploadCatch(a, r.message) ELSE pollJobStatus(a, r.jobId)

(***************************************************************************)
(* pollJobStatus.checkStatus                                               *)
(***************************************************************************)
\* the timer fires: checkStatus issues GET /status/${jobId}
TimerFire(a) ==
    /\ attempts[a].phase = "timer"
    /\ attempts[a].timerLeft = 0
    /\ SumReqs(attempts) < MaxPolls
    /\ attempts' = [attempts EXCEPT ![a].phase = "checking",
                                    ![a].reqs = @ + 1,
                                    ![a].age = 0,
                                    ![a].reqUrl = StatusUrl(attempts[a].jobId)]
    /\ UNCHANGED dom

\* the server's error of a failed job dropped
StatusChainDefaultOnly(resp) ==
    IF resp.kind = "neterr" THEN [branch |-> "throw", message |-> FetchFailed]
    ELSE IF ~resp.json THEN [branch |-> "throw", message |-> JsonFailed]
    ELSE IF resp.data.status = <<"completed">> THEN [branch |-> "redirect"]
    ELSE IF resp.data.status = <<"failed">>
         THEN [branch |-> "throw", message |-> DefaultFailed]
    ELSE [branch |-> "continue", time |-> resp.data.processing_time]

\* any status other than processing taken for an error
StatusChainStrict(resp) ==
    IF resp.kind = "neterr" THEN [branch |-> "throw", message |-> FetchFailed]
    ELSE IF ~resp.json THEN [branch |-> "throw", message |-> JsonFailed]
    ELSE IF resp.data.status = <<"completed">> THEN [branch |-> "redirect"]
    ELSE IF resp.data.status = <<"failed">>
         THEN [branch |-> "throw",
               message |-> IF TruthyStr(resp.data.error)
                           THEN resp.data.error[1] ELSE DefaultFailed]
    ELSE IF resp.data.status = <<"processing">>
         THEN [branch |-> "continue", time |-> resp.data.processing_time]
    ELSE [branch |-> "throw", message |-> "Unknown status"]

\* the .then/.then chain on the /status fetch
StatusChain(resp) ==
    IF resp.kind = "neterr" THEN [branch |-> "throw", message |-> FetchFailed]
    ELSE IF ~resp.json THEN [branch |-> "throw", message |-> JsonFailed]
    ELSE IF resp.data.status = <<"completed">> THEN [branch |-> "redirect"]
    ELSE IF resp.data.status = <<"failed">>
         THEN [branch |-> "throw",
               message |-> IF TruthyStr(resp.data.error)
                           THEN resp.data.error[1] ELSE DefaultFailed]
    ELSE [branch |-> "continue", time |-> resp.data.processing_time]

\* a .catch that reports the error and leaves the form as it is
StatusCatchAlertOnly(a, message) ==
    /\ attempts' = [attempts EXCEPT ![a].phase = "pollFailed",
                                    ![a].age = 0,
                                    ![a].alert = <<StatusPrefix, message>>]
    /\ UNCHANGED dom

\* the .catch of checkStatus
StatusCatch(a, message) ==
    /\ attempts' = [attempts EXCEPT ![a].phase = "pollFailed",
                                    ![a].age = 0,
                                    ![a].alert = <<StatusPrefix, message>>]
    /\ processingDisplay' = "none"
    /\ submitDisabled' = FALSE
    /\ submitLabel' = LabelUpload
    /\ UNCHANGED <<processingText, locationHref>>

\* the completed branch of checkStatus
StatusRedirect(a) ==
    /\ attempts' = [attempts EXCEPT ![a].phase = "navigated", ![a].age = 0]
    /\ locationHref' = ResultsUrl(attempts[a].jobId)
    /\ UNCHANGED <<processingDisplay, submitDisabled, submitLabel, processingText>>

\* setTimeout(checkStatus) without its delay
StatusContinueNoDelay(a, time) ==
    /\ processingText' = IF TruthyNum(time)
                         THEN <<"Processing... (", MathRound(time[1]), "s elapsed)">>
                         ELSE processingText
    /\ attempts' = [attempts EXCEPT ![a].phase = "timer",
                                    ![a].timerLeft = 0,
                                    ![a].handled = @ + 1]
    /\ UNCHANGED <<processingDisplay, submitDisabled, submitLabel, locationHref>>

\* the form re-enabled while the job is still processing
StatusContinueEnables(a, time) ==
    /\ processingText' = IF TruthyNum(time)
                         THEN <<"Processing... (", MathRound(time[1]), "s elapsed)">>
                         ELSE processingText
    /\ attempts' = [attempts EXCEPT ![a].phase = "timer",
                                    ![a].timerLeft = PollDelay,
                                    ![a].handled = @ + 1]
    /\ submitDisabled' = FALSE
    /\ submitLabel' = LabelUpload
    /\ UNCHANGED <<processingDisplay, locationHref>>

\* an else branch without its setTimeout: the loop ends on a processing answer
StatusContinueStops(a, time) ==
    /\ processingText' = IF TruthyNum(time)
                         THEN <<"Processing... (", MathRound(time[1]), "s elapsed)">>
                         ELSE processingText
    /\ attempts' = [attempts EXCEPT ![a].phase = "idle",
                                    ![a].handled = @ + 1]
    /\ UNCHANGED <<processingDisplay, submitDisabled, submitLabel, locationHref>>

\* the else branch of checkStatus: show the elapsed time, arm the next timer
StatusContinue(a, time) ==
    /\ processingText' = IF TruthyNum(time)
                         THEN <<"Processing... (", MathRound(time[1]), "s elapsed)">>
                         ELSE processingText
    /\ attempts' = [attempts EXCEPT ![a].phase = "timer",
                                    ![a].timerLeft = PollDelay,
                                    ![a].handled = @ + 1]
    /\ UNCHANGED <<processingDisplay, submitDisabled, submitLabel, locationHref>>

StatusResponse(a, resp) ==
    /\ attempts[a].phase = "checking"
    /\ LET r == StatusChain(resp) IN
         CASE r.branch = "throw" -> StatusCatch(a, r.message)
           [] r.branch = "redirect" -> StatusRedirect(a)
           [] r.branch = "continue" -> StatusContinue(a, r.time)

(***************************************************************************)
(* setTimeout, without a clock: the delay of a pending timer runs out      *)
(***************************************************************************)
TimerElapses(a) ==
    /\ attempts[a].phase = "timer"
    /\ attempts[a].timerLeft > 0
    /\ attempts' = [attempts EXCEPT ![a].timerLeft = 0]
    /\ UNCHANGED dom

(***************************************************************************)
(* setTimeout, with a clock: TickMs pass; every pending timer comes closer *)
(* to its due time and every request of a running poll grows older         *)
(***************************************************************************)
Polling(at) == at.phase \in {"timer", "checking"}

Elapse(at) ==
    [at EXCEPT !.timerLeft = Max(0, @ - TickMs),
               !.age = IF Polling(at) THEN Min(MaxAge, @ + TickMs) ELSE @]

Tick ==
    /\ attempts' = [a \in Attempts |-> Elapse(attempts[a])]
    /\ attempts' # attempts
    /\ UNCHANGED dom

(***************************************************************************)
(* static/js/interactive.js: the regenerate-report button                  *)
(***************************************************************************)
RegenLabelIdle == "Analyze with Gemini"
RegenLabelBusy == "Analyzing..."
ServerReport == <<"report rendered by the server">>
LoadingPanel == <<"Analyzing Video with AI">>
UnknownError == "An unknown error occurred."

\* reportContent.innerHTML = data.report
ReportHtml(report) == <<"report", TemplateStr(report)>>
ErrorPanel(message) == <<"Error Analyzing Video", message>>
ConnectionPanel(message) == <<"Connection Error", message>>

\* bodies of a /api/regenerate-report response
RegenBodies ==
    [status : {<<"success">>}, report : {<<"R">>}, error : {<<>>}]
        \cup [status : {<<"error">>}, report : {<<>>}, error : ErrorTexts]
        \cup [status : {<<>>}, report : {<<>>}, error : {<<>>}]

RegenResponses ==
    {[kind |-> "neterr"]}
        \cup [kind : {"http"}, json : {FALSE}]
        \cup [kind : {"http"}, json : {TRUE}, data : RegenBodies]

RegenInit ==
    /\ regenDisabled = FALSE
    /\ regenLabel = RegenLabelIdle
    /\ reportContent = ServerReport
    /\ toasts = 0
    /\ regenInflight = 0

\* a click handler that forgets to disable the button
RegenClickHandlerStaysEnabled ==
    /\ regenLabel' = RegenLabelBusy
    /\ reportContent' = LoadingPanel
    /\ regenInflight' = regenInflight + 1
    /\ UNCHANGED <<regenDisabled, toasts>>

\* the click handler: disable, show the loading indicator, send the request
RegenClickHandler ==
    /\ regenDisabled' = TRUE
    /\ regenLabel' = RegenLabelBusy
    /\ reportContent' = LoadingPanel
    /\ regenInflight' = regenInflight + 1
    /\ UNCHANGED toasts

\* A click event reaches the handler only while the button is enabled: the
\* listener is on the button itself, and a disabled button gets no click.
RegenClick ==
    /\ ~regenDisabled
    /\ toasts < MaxToasts
    /\ RegenClickHandler

\* the server's error of an error response dropped
RegenChainUnknownOnly(resp) ==
    IF resp.kind = "neterr" THEN [branch |-> "catch", message |-> FetchFailed]
    ELSE IF ~resp.json THEN [branch |-> "catch", message |-> JsonFailed]
    ELSE IF resp.data.status = <<"success">>
         THEN [branch |-> "success", report |-> resp.data.report]
    ELSE [branch |-> "error", message |-> UnknownError]

\* the .then/.then chain on the regenerate fetch
RegenChain(resp) ==
    IF resp.kind = "neterr" THEN [branch |-> "catch", message |-> FetchFailed]
    ELSE IF ~resp.json THEN [branch |-> "catch", message |-> JsonFailed]
    ELSE IF resp.data.status = <<"success">>
         THEN [branch |-> "success", report |-> resp.data.report]
    ELSE [branch |-> "error",
          message |-> IF TruthyStr(resp.data.error) THEN resp.data.error[1]
                      ELSE UnknownError]

\* a .then in place of the .finally: the button stays disabled after a failure
RegenFinallyOnSuccessOnly(branch) ==
    IF branch = "catch"
    THEN UNCHANGED <<regenDisabled, regenLabel>>
    ELSE regenDisabled' = FALSE /\ regenLabel' = RegenLabelIdle

\* the .finally of the regenerate fetch
RegenFinally(branch) ==
    /\ regenDisabled' = FALSE
    /\ regenLabel' = RegenLabelIdle

\* the regenerate request settles: then/catch, and finally
RegenResponse(resp) ==
    /\ regenInflight > 0
    /\ regenInflight' = regenInflight - 1
    /\ LET r == RegenChain(resp) IN
         /\ CASE r.branch = "success" ->
                    reportContent' = ReportHtml(r.report) /\ toasts' = toasts + 1
              [] r.branch = "error" ->
                    reportContent' = ErrorPanel(r.message) /\ UNCHANGED toasts
              [] r.branch = "catch" ->
                    reportContent' = ConnectionPanel(r.message) /\ UNCHANGED toasts
         /\ RegenFinally(r.branch)

(***************************************************************************)
(* static/js/interactive.js: the chatbot widget                            *)
(***************************************************************************)
\* The widget as loaded, on a page with fight segments: the alert timer is
\* armed.  On a page without them the timer is never armed, which is the
\* behaviour in which it never fires.
WidgetInit ==
    /\ isChatbotMinimized = FALSE
    /\ minimizedClass = FALSE
    /\ bodyDisplay = ""
    /\ notificationDisplay = ""
    /\ notificationPulse = FALSE
    /\ chatbotDisplay = ""
    /\ alertTimer = "pending"

toggleChatbot ==
    /\ isChatbotMinimized' = ~isChatbotMinimized
    /\ minimizedClass' = ~isChatbotMinimized
    /\ bodyDisplay' = IF ~isChatbotMinimized THEN "none" ELSE "flex"
    /\ notificationDisplay' = IF ~isChatbotMinimized THEN "flex" ELSE "none"
    /\ UNCHANGED <<notificationPulse, chatbotDisplay, alertTimer>>

MinimizeClick == toggleChatbot

\* a header handler without its test of isChatbotMinimized
HeaderClickAlwaysToggles == toggleChatbot

HeaderClick ==
    IF isChatbotMinimized THEN toggleChatbot ELSE UNCHANGED widgetVars

CloseClick ==
    /\ chatbotDisplay' = "none"
    /\ UNCHANGED <<isChatbotMinimized, minimizedClass, bodyDisplay, notificationDisplay,
                   notificationPulse, alertTimer>>

\* the fight-alert timer fires
AlertTimerFires ==
    /\ alertTimer = "pending"
    /\ alertTimer' = "fired"
    /\ IF isChatbotMinimized
       THEN notificationDisplay' = "flex" /\ notificationPulse' = TRUE
       ELSE UNCHANGED <<notificationDisplay, notificationPulse>>
    /\ UNCHANGED <<isChatbotMinimized, minimizedClass, bodyDisplay, chatbotDisplay>>

(***************************************************************************)
(* static/js/interactive.js: the chat                                      *)
(***************************************************************************)
\* values the user leaves in the input field
Inputs == {<<>>, <<" ">>, <<"a">>, <<" ", "a", " ">>, <<"a", " ", "a">>}

RECURSIVE TrimLeft(_)
TrimLeft(s) == IF s # <<>> /\ Head(s) = " " THEN TrimLeft(Tail(s)) ELSE s

RECURSIVE TrimRight(_)
TrimRight(s) ==
    IF s # <<>> /\ s[Len(s)] = " " THEN TrimRight(SubSeq(s, 1, Len(s) - 1)) ELSE s

\* a sendMessage that reads the input as typed
NoTrim(s) == s

\* String.prototype.trim
Trim(s) == TrimRight(TrimLeft(s))

CommError == <<"Sorry, there was a communication error. Please try again later.">>
UnknownChatError == "Unknown error"
BotError(message) == <<"Sorry, I encountered an error: ", message, ". Please try again.">>

\* bodies of a /api/chat response
ChatBodies ==
    [status : {<<"success">>}, response : {<<"R">>}, error : {<<>>}]
        \cup [status : {<<"error">>}, response : {<<>>}, error : ErrorTexts]

ChatResponses ==
    {[kind |-> "neterr"]}
        \cup [kind : {"http"}, ok : BOOLEAN, json : {FALSE}]
        \cup [kind : {"http"}, ok : BOOLEAN, json : {TRUE}, data : ChatBodies]

\* the elements appended to #chat-messages
MessageDiv(text, sender) == [kind |-> sender, text |-> text, req |-> 0]
TypingIndicator(req) == [kind |-> "typing", text |-> <<>>, req |-> req]

ChatInit ==
    /\ chatMessages = <<>>
    /\ userInput = <<>>
    /\ chatInflight = {}
    /\ chatSent = 0

\* the user edits the input field
SetInput(text) ==
    /\ text # userInput
    /\ userInput' = text
    /\ UNCHANGED <<chatMessages, chatInflight, chatSent>>

\* sendMessage, run by a click on the send button and by the Enter key
sendMessage ==
    LET message == Trim(userInput)
        req == chatSent + 1
    IN  IF message = <<>>
        THEN UNCHANGED chatVars
        ELSE /\ chatSent < MaxSends
             /\ chatMessages' = chatMessages \o
                                  <<MessageDiv(message, "user"), TypingIndicator(req)>>
             /\ userInput' = <<>>
             /\ chatInflight' = chatInflight \cup {req}
             /\ chatSent' = req

\* every .typing-indicator removed, not the one this request created
RemoveAllTyping(list, req) ==
    SelectSeq(list, LAMBDA e : e.kind # "typing")

\* chatMessages.removeChild(chatMessages.lastChild) in place of the indicator
RemoveLastChild(list, req) ==
    IF list = <<>> THEN list ELSE SubSeq(list, 1, Len(list) - 1)

\* if (typingIndicator.parentNode) chatMessages.removeChild(typingIndicator)
RemoveTyping(list, req) ==
    SelectSeq(list, LAMBDA e : ~(e.kind = "typing" /\ e.req = req))

\* the text of the bot message a settled chat request leaves
ChatChain(resp) ==
    IF resp.kind = "neterr" \/ ~resp.json THEN CommError
    ELSE IF resp.data.status = <<"success">> THEN <<TemplateStr(resp.data.response)>>
    ELSE BotError(IF TruthyStr(resp.data.error) THEN resp.data.error[1]
                  ELSE UnknownChatError)

\* the chat request req settles: its .then or its .catch
ChatResponse(req, resp) ==
    /\ req \in chatInflight
    /\ chatInflight' = chatInflight \ {req}
    /\ chatMessages' = Append(RemoveTyping(chatMessages, req),
                              MessageDiv(ChatChain(resp), "bot"))
    /\ UNCHANGED <<userInput, chatSent>>

(***************************************************************************)
(* static/js/videoprocessing.js: the timeline and the player               *)
(***************************************************************************)
\* resultsData.total_frames
TotalFrames == 8

\* the .timeline-segment elements, in document order, with their data
\* attributes; the second overlaps the first, no segment holds frames 6 and 7
Segments ==
    <<[startFrame |-> 0, endFrame |-> 3, startTime |-> "0.0s", endTime |-> "1.5s",
       probability |-> "0.10", fight |-> FALSE],
      [startFrame |-> 2, endFrame |-> 4, startTime |-> "1.0s", endTime |-> "2.0s",
       probability |-> "0.90", fight |-> TRUE],
      [startFrame |-> 5, endFrame |-> 5, startTime |-> "2.5s", endTime |-> "2.5s",
       probability |-> "0.80", fight |-> TRUE]>>

SegmentIds == DOMAIN Segments

\* data-start-frame of the .incident-item elements; no segment starts at 7
IncidentFrames == {2, 5, 7}

\* the durations the metadata can announce, in ms
Durations == {<<0>>, <<4000>>, <<8000>>}

OutlineSelected == "2px solid white"

\* isNaN(duration) || duration <= 0
DurationUnavailable == duration = <<>> \/ duration[1] <= 0

\* startFrame / fps with fps = total_frames / duration, in ms
FrameTime(frame) == (frame * duration[1]) \div TotalFrames

\* Math.floor((currentTime / duration) * total_frames)
CurrentFrame == (currentTime * TotalFrames) \div duration[1]

\* what updateSegmentInfo(segment) writes to the panel
updateSegmentInfo(segment) ==
    [timeRange |-> <<segment.startTime, " - ", segment.endTime>>,
     frames |-> <<segment.startFrame, " - ", segment.endFrame>>,
     probability |-> <<segment.probability>>,
     status |-> IF segment.fight THEN "Fight Detected" ELSE "No Fight",
     badge |-> IF segment.fight THEN "badge bg-danger" ELSE "badge bg-success",
     display |-> "block"]

VideoInit ==
    /\ selectedSegment = 0
    /\ outline = [i \in SegmentIds |-> ""]
    /\ segmentInfo = [timeRange |-> <<>>, frames |-> <<>>, probability |-> <<>>,
                      status |-> "", badge |-> "", display |-> ""]
    /\ jumpTime = <<>>
    /\ duration = <<>>
    /\ currentTime = 0
    /\ paused = TRUE
    /\ jumpToasts = 0

playerVars == <<currentTime, paused, jumpToasts>>

selectionVars == <<selectedSegment, outline, segmentInfo, jumpTime>>

\* the metadata of the video arrives: the duration is known from now on
LoadedMetadata(d) ==
    /\ duration = <<>>
    /\ duration' = d
    /\ UNCHANGED <<selectionVars, playerVars>>

\* jumpToVideoTime(timeInSeconds): seek, show a toast, play; play() and its
\* retry after 300 ms leave the player playing or as it was
jumpToVideoTime(time) ==
    IF time >= 0
    THEN /\ jumpToasts < MaxJumpToasts
         /\ currentTime' = IF duration # <<>> /\ time > duration[1] THEN duration[1] ELSE time
         /\ jumpToasts' = jumpToasts + 1
         /\ \E played \in BOOLEAN : paused' = IF played THEN FALSE ELSE paused
    ELSE UNCHANGED playerVars

\* the 2000 ms timer of a jump toast removes it
ToastExpires ==
    /\ jumpToasts > 0
    /\ jumpToasts' = jumpToasts - 1
    /\ UNCHANGED <<selectionVars, duration, currentTime, paused>>

\* an onclick that leaves the outline of the segment selected before
SegmentClickKeepsOutline(i) ==
    /\ outline' = [outline EXCEPT ![i] = OutlineSelected]
    /\ selectedSegment' = i
    /\ segmentInfo' = updateSegmentInfo(Segments[i])
    /\ UNCHANGED duration
    /\ IF DurationUnavailable
       THEN UNCHANGED <<jumpTime, playerVars>>
       ELSE /\ jumpTime' = <<FrameTime(Segments[i].startFrame)>>
            /\ jumpToVideoTime(FrameTime(Segments[i].startFrame))

\* segment.onclick of the i-th timeline segment
SegmentClick(i) ==
    /\ outline' = [j \in SegmentIds |->
                     IF j = i THEN OutlineSelected
                     ELSE IF j = selectedSegment THEN "none"
                     ELSE outline[j]]
    /\ selectedSegment' = i
    /\ segmentInfo' = updateSegmentInfo(Segments[i])
    /\ UNCHANGED duration
    /\ IF DurationUnavailable
       THEN UNCHANGED <<jumpTime, playerVars>>
       ELSE /\ jumpTime' = <<FrameTime(Segments[i].startFrame)>>
            /\ jumpToVideoTime(FrameTime(Segments[i].startFrame))

\* the click handler of the jump-to-segment button
JumpClick ==
    /\ IF jumpTime # <<>>
       THEN jumpToVideoTime(jumpTime[1])
       ELSE UNCHANGED playerVars
    /\ UNCHANGED <<selectionVars, duration>>

\* the first timeline segment that starts at the frame, 0 if there is none
RECURSIVE MatchingSegment(_, _)
MatchingSegment(i, frame) ==
    IF i > Len(Segments) THEN 0
    ELSE IF Segments[i].startFrame = frame THEN i
    ELSE MatchingSegment(i + 1, frame)

\* the click handler of an incident item
IncidentClick(frame) ==
    LET found == MatchingSegment(1, frame)
    IN  IF found # 0
        THEN SegmentClick(found)
        ELSE /\ IF DurationUnavailable
                THEN UNCHANGED playerVars
                ELSE jumpToVideoTime(FrameTime(frame))
             /\ UNCHANGED <<selectionVars, duration>>

\* timelineSegments.forEach: every segment that holds the frame overwrites
\* foundSegment
RECURSIVE ScanSegments(_, _, _)
ScanSegments(i, frame, found) ==
    IF i > Len(Segments) THEN found
    ELSE ScanSegments(i + 1, frame,
                      IF frame >= Segments[i].startFrame /\ frame <= Segments[i].endFrame
                      THEN i ELSE found)

\* a scan that stops at the first segment that holds the frame
FirstFoundSegment(frame) ==
    LET holding == {i \in SegmentIds :
                       frame >= Segments[i].startFrame /\ frame <= Segments[i].endFrame}
    IN  IF holding = {} THEN 0 ELSE CHOOSE i \in holding : \A j \in holding : i <= j

FoundSegment(frame) == ScanSegments(1, frame, 0)

\* the timeupdate handler of the player
TimeUpdate ==
    /\ IF DurationUnavailable
       THEN UNCHANGED selectionVars
       ELSE LET foundSegment == FoundSegment(CurrentFrame)
            IN  IF foundSegment # 0 /\ foundSegment # selectedSegment
                THEN /\ outline' = [j \in SegmentIds |->
                                      IF j = foundSegment THEN OutlineSelected
                                      ELSE IF j = selectedSegment THEN "none"
                                      ELSE outline[j]]
                     /\ selectedSegment' = foundSegment
                     /\ segmentInfo' = updateSegmentInfo(Segments[foundSegment])
                     /\ jumpTime' = <<FrameTime(Segments[foundSegment].startFrame)>>
                ELSE UNCHANGED selectionVars
    /\ UNCHANGED <<duration, playerVars>>

\* the player plays on; at the end of the video it stops
Playback ==
    /\ ~paused
    /\ ~DurationUnavailable
    /\ currentTime < duration[1]
    /\ currentTime' = Min(duration[1], currentTime + PlaybackStep)
    /\ paused' = (currentTime' = duration[1])
    /\ UNCHANGED <<selectionVars, duration, jumpToasts>>

(***************************************************************************)
(* The pages.  main.js and interactive.js each run on DOMContentLoaded; a  *)
(* handler of one script leaves the state of the other as it is.           *)
(***************************************************************************)
Init == UploadInit /\ RegenInit /\ WidgetInit /\ ChatInit /\ VideoInit

resultsVars == <<regenVars, widgetVars, chatVars, videoVars>>

\* the upload page with timers that run out in any order
Next ==
    \/ (\E size \in FileSizes : Submit(size)) /\ UNCHANGED resultsVars
    \/ (\E a \in Attempts : \E resp \in UploadResponses(a) : UploadResponse(a, resp))
           /\ UNCHANGED resultsVars
    \/ (\E a \in Attempts : TimerElapses(a)) /\ UNCHANGED resultsVars
    \/ (\E a \in Attempts : TimerFire(a)) /\ UNCHANGED resultsVars
    \/ (\E a \in Attempts : \E resp \in StatusResponses : StatusResponse(a, resp))
           /\ UNCHANGED resultsVars

Spec == Init /\ [][Next]_vars

\* the upload page with a clock
NextClock ==
    \/ (Len(attempts) < MaxClockSubmits /\ \E size \in FileSizes : Submit(size))
           /\ UNCHANGED resultsVars
    \/ (\E a \in Attempts : \E resp \in UploadResponses(a) : UploadResponse(a, resp))
           /\ UNCHANGED resultsVars
    \/ (\E a \in Attempts : TimerFire(a)) /\ UNCHANGED resultsVars
    \/ (\E a \in Attempts : \E resp \in StatusResponses : StatusResponse(a, resp))
           /\ UNCHANGED resultsVars
    \/ Tick /\ UNCHANGED resultsVars

SpecClock == Init /\ [][NextClock]_vars

\* The answers of a server that ends the job: once the requests the page may
\* issue are used up, the answer is completed, failed or a transport error.
EndingAnswers ==
    {resp \in StatusResponses :
        SumReqs(attempts) >= MaxPolls =>
            \/ resp.kind = "neterr"
            \/ ~resp.json
            \/ resp.data.status \in {<<"completed">>, <<"failed">>}}

\* the upload page with a clock, the form submitted once, the job ending
NextFair ==
    \/ (attempts = <<>> /\ \E size \in FileSizes : Submit(size)) /\ UNCHANGED resultsVars
    \/ (\E a \in Attempts : \E resp \in UploadResponses(a) : UploadResponse(a, resp))
           /\ UNCHANGED resultsVars
    \/ (\E a \in Attempts : TimerFire(a)) /\ UNCHANGED resultsVars
    \/ (\E a \in Attempts : \E resp \in EndingAnswers : StatusResponse(a, resp))
           /\ UNCHANGED resultsVars
    \/ Tick /\ UNCHANGED resultsVars

\* The event loop runs a timer that is due and a response that has arrived;
\* time passes; the server answers every status request.
SpecFair ==
    /\ Init /\ [][NextFair]_vars
    /\ WF_vars(Tick /\ UNCHANGED resultsVars)
    /\ WF_vars((\E a \in Attempts : TimerFire(a)) /\ UNCHANGED resultsVars)
    /\ WF_vars((\E a \in Attempts : \E resp \in EndingAnswers : StatusResponse(a, resp))
                  /\ UNCHANGED resultsVars)

\* the results page: report button and chatbot widget
NextPanel ==
    \/ RegenClick /\ UNCHANGED <<videoVars, uploadVars, widgetVars, chatVars>>
    \/ (\E resp \in RegenResponses : RegenResponse(resp))
           /\ UNCHANGED <<videoVars, uploadVars, widgetVars, chatVars>>
    \/ MinimizeClick /\ UNCHANGED <<videoVars, uploadVars, regenVars, chatVars>>
    \/ HeaderClick /\ UNCHANGED <<videoVars, uploadVars, regenVars, chatVars>>
    \/ CloseClick /\ UNCHANGED <<videoVars, uploadVars, regenVars, chatVars>>
    \/ AlertTimerFires /\ UNCHANGED <<videoVars, uploadVars, regenVars, chatVars>>

SpecPanel == Init /\ [][NextPanel]_vars

\* the results page: the chat
NextChat ==
    \/ (\E text \in Inputs : SetInput(text)) /\ UNCHANGED <<videoVars, uploadVars, regenVars, widgetVars>>
    \/ sendMessage /\ UNCHANGED <<videoVars, uploadVars, regenVars, widgetVars>>
    \/ (\E req \in chatInflight : \E resp \in ChatResponses : ChatResponse(req, resp))
           /\ UNCHANGED <<videoVars, uploadVars, regenVars, widgetVars>>

SpecChat == Init /\ [][NextChat]_vars

\* the results page: the timeline and the player
NextVideo ==
    \/ (\E d \in Durations : LoadedMetadata(d))
           /\ UNCHANGED <<uploadVars, regenVars, widgetVars, chatVars>>
    \/ (\E i \in SegmentIds : SegmentClick(i))
           /\ UNCHANGED <<uploadVars, regenVars, widgetVars, chatVars>>
    \/ (\E frame \in IncidentFrames : IncidentClick(frame))
           /\ UNCHANGED <<uploadVars, regenVars, widgetVars, chatVars>>
    \/ JumpClick /\ UNCHANGED <<uploadVars, regenVars, widgetVars, chatVars>>
    \/ TimeUpdate /\ UNCHANGED <<uploadVars, regenVars, widgetVars, chatVars>>
    \/ Playback /\ UNCHANGED <<uploadVars, regenVars, widgetVars, chatVars>>
    \/ ToastExpires /\ UNCHANGED <<uploadVars, regenVars, widgetVars, chatVars>>

SpecVideo == Init /\ [][NextVideo]_vars

TypeOK ==
    /\ processingDisplay \in {"none", "block"}
    /\ submitDisabled \in BOOLEAN
    /\ \A a \in Attempts : attempts[a].timerLeft \in 0..PollDelay

(***************************************************************************)
(* Vocabulary of the properties.                                           *)
(***************************************************************************)
\* the attempts other than a are left as they are
OthersKept(a) == \A b \in Attempts \ {a} : attempts'[b] = attempts[b]

\* attempt a issues a GET /status request in this step
IssuesStatus(a) == attempts'[a].reqs # attempts[a].reqs

\* attempt a handles the response to its GET /status request in this step
HandlesStatus(a) == attempts[a].phase = "checking" /\ attempts'[a].phase # "checking"

\* attempt a handles the response to its POST /upload request in this step
HandlesUpload(a) == attempts[a].phase = "uploading" /\ attempts'[a].phase # "uploading"

JsonBody(resp) == resp.kind = "http" /\ resp.json

(***************************************************************************)
(* C1: a submit event whose selected file is larger than 300 MB is         *)
(* rejected locally: the handler alerts and returns; it issues no /upload  *)
(* request and no other request, starts no poll and touches neither the    *)
(* page nor any other attempt; a rejected attempt never does anything      *)
(* later.                                                                  *)
(***************************************************************************)
C1_OversizeRejectedLocally ==
    [][/\ \A size \in FileSizes :
            (size # NoFile /\ size > 300 * 1024 * 1024 /\ Submit(size)) =>
                LET new == attempts'[Len(attempts')] IN
                  /\ new.phase = "rejected"
                  /\ new.alert = AlertTooLarge
                  /\ new.uploads = 0 /\ new.reqs = 0 /\ new.timerLeft = 0
                  /\ SubSeq(attempts', 1, Len(attempts)) = attempts
                  /\ UNCHANGED dom
        /\ \A a \in Attempts :
            attempts[a].phase = "rejected" => attempts'[a] = attempts[a]]_vars

C1_Witness ==
    \E a \in Attempts :
        /\ attempts[a].phase = "rejected"
        /\ attempts[a].alert = AlertTooLarge
        /\ attempts[a].uploads = 0

(***************************************************************************)
(* C3: after n processing responses and a completed one an attempt has     *)
(* issued exactly n+1 GET /status/{job_id} requests, all for the job id    *)
(* its upload returned; a request is issued only by a timer that has run   *)
(* out, armed after the previous response was handled, at least 2000 ms    *)
(* after the previous request; the completed response navigates to         *)
(* /results/{job_id} of that job, and nothing is issued afterwards.        *)
(***************************************************************************)
C3_PollUntilCompleted ==
    [][\A a \in Attempts :
        /\ IssuesStatus(a) =>
              /\ attempts[a].phase = "timer" /\ attempts[a].timerLeft = 0
              /\ attempts[a].reqs = attempts[a].handled
              /\ attempts'[a].reqs = attempts[a].reqs + 1
              /\ attempts[a].reqs > 0 => attempts[a].age >= 2000
              /\ attempts[a].jobId \in {<<>>, <<ServerJobIds[a]>>}
              /\ attempts'[a].reqUrl = <<"/status/", TemplateStr(attempts[a].jobId)>>
        /\ (HandlesStatus(a) /\ attempts'[a].phase = "navigated") =>
              /\ attempts'[a].reqs = attempts'[a].handled + 1
              /\ attempts'[a].handled = attempts[a].handled
              /\ locationHref' = <<"/results/", TemplateStr(attempts[a].jobId)>>
              /\ attempts'[a].jobId = attempts[a].jobId
        /\ attempts[a].phase = "navigated" => attempts'[a] = attempts[a]]_vars

C3_Witness ==
    \E a \in Attempts :
        /\ attempts[a].phase = "navigated"
        /\ attempts[a].handled = 2 /\ attempts[a].reqs = 3
        /\ attempts[a].jobId = <<ServerJobIds[a]>>
        /\ locationHref = <<"/results/", ServerJobIds[a]>>

(***************************************************************************)
(* C5: a transport error on a status check (the fetch is rejected, or the  *)
(* body is not JSON) ends the poll: the attempt alerts, the upload button  *)
(* is enabled again, and the attempt never schedules or issues another     *)
(* status check.                                                           *)
(***************************************************************************)
C5_TransportErrorEndsPoll ==
    [][\A a \in Attempts :
        /\ HandlesStatus(a) =>
              \A resp \in StatusResponses :
                 (~JsonBody(resp) /\ StatusResponse(a, resp)) =>
                    /\ attempts'[a].phase = "pollFailed"
                    /\ attempts'[a].alert # <<>>
                    /\ attempts'[a].alert[1] = StatusPrefix
                    /\ submitDisabled' = FALSE
                    /\ submitLabel' = LabelUpload
                    /\ processingDisplay' = "none"
        /\ attempts[a].phase = "pollFailed" => attempts'[a] = attempts[a]]_vars

C5_Witness ==
    \E a \in Attempts :
        /\ attempts[a].phase = "pollFailed"
        /\ attempts[a].alert \in {<<StatusPrefix, FetchFailed>>, <<StatusPrefix, JsonFailed>>}
        /\ attempts[a].reqs = 2
        /\ ~submitDisabled

(***************************************************************************)
(* C6: a processing response changes nothing the user sees but the         *)
(* elapsed-time text: button, processing status, alerts and location are   *)
(* left as they are, and the poll goes on with one timer of 2000 ms.  The  *)
(* text it leaves depends on the response alone, so a repeated identical   *)
(* response leaves the page as the first one did.                          *)
(***************************************************************************)
ElapsedText(resp) ==
    <<"Processing... (", (resp.data.processing_time[1] + 5) \div 10, "s elapsed)">>

C6_ProcessingIdempotent ==
    [][\A a \in Attempts :
        HandlesStatus(a) =>
          \A resp \in StatusResponses :
             (JsonBody(resp) /\ resp.data.status = <<"processing">> /\ StatusResponse(a, resp)) =>
                /\ UNCHANGED <<processingDisplay, submitDisabled, submitLabel, locationHref>>
                /\ \A b \in Attempts : attempts'[b].alert = attempts[b].alert
                /\ OthersKept(a)
                /\ attempts'[a].phase = "timer"
                /\ attempts'[a].timerLeft = 2000
                /\ attempts'[a].reqs = attempts[a].reqs
                /\ processingText' =
                      IF resp.data.processing_time \in {<<>>, <<0>>}
                      THEN processingText ELSE ElapsedText(resp)]_vars

C6_Witness ==
    \E a \in Attempts :
        /\ attempts[a].phase = "timer"
        /\ attempts[a].handled = 2
        /\ attempts[a].alert = <<>>
        /\ submitDisabled /\ processingDisplay = "block"
        /\ processingText = <<"Processing... (", 1, "s elapsed)">>

(***************************************************************************)
(* C2: every upload response whose body has an `error` field makes the     *)
(* attempt alert exactly that message and fail without a poll: no timer,   *)
(* no status request.                                                      *)
(***************************************************************************)
C2_ErrorFieldSurfaced ==
    [][\A a \in Attempts :
        HandlesUpload(a) =>
          \A resp \in UploadResponses(a) :
             (JsonBody(resp) /\ resp.data.error # <<>> /\ UploadResponse(a, resp)) =>
                /\ attempts'[a].alert = <<UploadPrefix, resp.data.error[1]>>
                /\ attempts'[a].phase = "uploadFailed"
                /\ attempts'[a].reqs = 0]_vars

(***************************************************************************)
(* C4 as stated: a failed response with error X (any string) ends the poll *)
(* with X alerted verbatim; without an error field the default is alerted. *)
(***************************************************************************)
C4_FailedSurfacesAnyError ==
    [][\A a \in Attempts :
        HandlesStatus(a) =>
          \A resp \in StatusResponses :
             (JsonBody(resp) /\ resp.data.status = <<"failed">> /\ StatusResponse(a, resp)) =>
                /\ attempts'[a].phase = "pollFailed"
                /\ attempts'[a].alert =
                      <<StatusPrefix, IF resp.data.error = <<>> THEN "Processing failed"
                                      ELSE resp.data.error[1]>>]_vars

(***************************************************************************)
(* C4, amended: a failed response ends the poll after that one response    *)
(* (no timer, no later request); it alerts the server's error verbatim     *)
(* when that error is a non-empty string, and the default message when the *)
(* error is absent or empty.                                               *)
(***************************************************************************)
C4_FailedSurfacesError ==
    [][\A a \in Attempts :
        /\ HandlesStatus(a) =>
              \A resp \in StatusResponses :
                 (JsonBody(resp) /\ resp.data.status = <<"failed">> /\ StatusResponse(a, resp)) =>
                    /\ attempts'[a].phase = "pollFailed"
                    /\ attempts'[a].reqs = attempts[a].reqs
                    /\ attempts'[a].alert =
                          <<StatusPrefix, IF resp.data.error \in {<<>>, <<"">>}
                                          THEN "Processing failed"
                                          ELSE resp.data.error[1]>>
        /\ (attempts[a].phase = "pollFailed" /\ attempts[a].alert[1] = StatusPrefix) =>
              /\ attempts'[a].phase = "pollFailed"
              /\ attempts'[a].reqs = attempts[a].reqs
              /\ attempts'[a].alert = attempts[a].alert]_vars

C4_Witness ==
    \E a \in Attempts :
        /\ attempts[a].phase = "pollFailed"
        /\ attempts[a].alert = <<StatusPrefix, "X">>
        /\ attempts[a].reqs = 1

(***************************************************************************)
(* C7: at most one job is being polled: at most one attempt has a pending  *)
(* timer or a status request in flight.                                    *)
(***************************************************************************)
C7_AtMostOnePoll ==
    Cardinality({a \in Attempts : Polling(attempts[a])}) <= 1

(***************************************************************************)
(* C8: every attempt follows Idle -> Submitting -> Polling -> {Completed,  *)
(* Failed}.  The handler passes from Idle through Submitting within one    *)
(* run, so a validation failure shows as Idle -> Failed.  Polling is       *)
(* entered only from Submitting by an ok JSON upload response; Completed   *)
(* only from Polling by a completed status; Failed from Submitting by any  *)
(* other upload response and from Polling by a failed status or a          *)
(* transport error; nothing leaves Completed or Failed.                    *)
(***************************************************************************)
LifeState(at) ==
    CASE at.phase = "uploading" -> "Submitting"
      [] at.phase \in {"timer", "checking"} -> "Polling"
      [] at.phase = "navigated" -> "Completed"
      [] at.phase \in {"rejected", "uploadFailed", "pollFailed"} -> "Failed"
      [] OTHER -> "Cancelled"

LifeEdge(a) ==
    LET old == IF a \in Attempts THEN LifeState(attempts[a]) ELSE "Idle"
        new == LifeState(attempts'[a])
    IN  \/ old = new
        \/ /\ old = "Idle" /\ new = "Submitting"
           /\ attempts'[a].uploads = 1
        \/ /\ old = "Idle" /\ new = "Failed"
           /\ attempts'[a].phase = "rejected"
        \/ /\ old = "Submitting" /\ new = "Polling"
           /\ attempts'[a].alert = <<>>
           /\ \E resp \in UploadResponses(a) :
                 /\ JsonBody(resp) /\ resp.ok /\ resp.data.error \in {<<>>, <<"">>}
                 /\ UploadResponse(a, resp)
        \/ /\ old = "Submitting" /\ new = "Failed"
           /\ attempts'[a].phase = "uploadFailed"
           /\ attempts'[a].reqs = 0
        \/ /\ old = "Polling" /\ new = "Completed"
           /\ \E resp \in StatusResponses :
                 /\ JsonBody(resp) /\ resp.data.status = <<"completed">>
                 /\ StatusResponse(a, resp)
        \/ /\ old = "Polling" /\ new = "Failed"
           /\ \E resp \in StatusResponses :
                 /\ ~JsonBody(resp) \/ resp.data.status = <<"failed">>
                 /\ StatusResponse(a, resp)

FailsNow(a) ==
    /\ attempts'[a].phase \in {"rejected", "uploadFailed", "pollFailed"}
    /\ a \in Attempts => attempts[a].phase # attempts'[a].phase

C9_FailureLeavesRetryable ==
    [][\A a \in 1..Len(attempts') :
        /\ FailsNow(a) => (attempts'[a].alert # <<>> /\ submitDisabled' = FALSE)
        /\ (a \in Attempts /\ LifeState(attempts[a]) = "Failed") =>
              attempts'[a] = attempts[a]]_vars

(***************************************************************************)
(* C10: an upload response with a non-success HTTP status fails the        *)
(* attempt without a poll and alerts the server's message when the body    *)
(* carries one, else the generic message.                                  *)
(***************************************************************************)
C10_NotOkSurfacesServerMessage ==
    [][\A a \in Attempts :
        HandlesUpload(a) =>
          \A resp \in UploadResponses(a) :
             (resp.kind = "http" /\ ~resp.ok /\ UploadResponse(a, resp)) =>
                /\ attempts'[a].phase = "uploadFailed"
                /\ attempts'[a].reqs = 0
                /\ attempts'[a].alert =
                      <<UploadPrefix, IF resp.json /\ resp.data.error \notin {<<>>, <<"">>}
                                      THEN resp.data.error[1]
                                      ELSE "Network response was not ok">>]_vars

(***************************************************************************)
(* C11: a poll stops (no pending timer, no status request in flight) only  *)
(* by handling a completed answer, a failed answer or a transport error;   *)
(* and when timers fire, responses are handled and the server ends the     *)
(* job, every poll that runs stops.                                        *)
(***************************************************************************)
TerminalAnswer(resp) ==
    \/ resp.kind = "neterr"
    \/ ~resp.json
    \/ resp.data.status \in {<<"completed">>, <<"failed">>}

PollRuns(a) == a \in Attempts /\ Polling(attempts[a])

C11_PollStopsOnlyOnTerminal ==
    /\ [][\A a \in Attempts :
            (Polling(attempts[a]) /\ ~Polling(attempts'[a])) =>
                /\ attempts[a].phase = "checking"
                /\ attempts'[a].phase \in {"navigated", "pollFailed"}
                /\ \E resp \in StatusResponses :
                      TerminalAnswer(resp) /\ StatusResponse(a, resp)]_vars
    /\ \A a \in 1..MaxSubmits : PollRuns(a) ~> ~PollRuns(a)

C11_Witness ==
    \E a \in Attempts :
        /\ attempts[a].phase \in {"navigated", "pollFailed"}
        /\ attempts[a].handled = 2

(***************************************************************************)
(* C12: the job-status region (processing message, processing status,      *)
(* upload button) is changed only by a response of the most recent         *)
(* attempt; a response of an earlier attempt never changes it.             *)
(***************************************************************************)
statusRegion == <<processingText, processingDisplay, submitDisabled, submitLabel>>

C12_OnlyLatestAttemptWrites ==
    [][\A a \in Attempts :
        ((HandlesUpload(a) \/ HandlesStatus(a)) /\ statusRegion' # statusRegion) =>
            a = Len(attempts)]_vars

(***************************************************************************)
(* C13: the upload response issues no status request; it arms a timer of   *)
(* 2000 ms.  Every GET /status, the first one too, is issued by a timer    *)
(* that has run out, at least 2000 ms after pollJobStatus was called or    *)
(* after the previous request.                                             *)
(***************************************************************************)
C13_FirstCheckDelayed ==
    [][\A a \in Attempts :
        /\ (HandlesUpload(a) /\ attempts'[a].phase = "timer") =>
              /\ attempts'[a].reqs = 0
              /\ attempts'[a].timerLeft = 2000
              /\ attempts'[a].age = 0
        /\ IssuesStatus(a) =>
              /\ attempts[a].phase = "timer"
              /\ attempts[a].timerLeft = 0
              /\ attempts[a].age >= 2000]_vars

C13_Witness ==
    \E a \in Attempts :
        /\ attempts[a].phase = "checking"
        /\ attempts[a].reqs = 1
        /\ attempts[a].age = 0

(***************************************************************************)
(* C16: a JSON status answer whose status is neither completed nor failed  *)
(* (an unknown status, no status field, an error body sent with a          *)
(* non-success HTTP status) is handled as a processing answer with the     *)
(* same processing_time: no alert, button and processing status left as    *)
(* they are, the next check armed with 2000 ms.                            *)
(***************************************************************************)
AsProcessing(resp) ==
    [kind |-> "http", ok |-> TRUE, json |-> TRUE,
     data |-> [resp.data EXCEPT !.status = <<"processing">>, !.error = <<>>]]

C16_OtherStatusIsProcessing ==
    [][\A a \in Attempts :
        HandlesStatus(a) =>
          \A resp \in StatusResponses :
             (/\ JsonBody(resp)
              /\ resp.data.status \notin {<<"completed">>, <<"failed">>, <<"processing">>}
              /\ StatusResponse(a, resp)) =>
                /\ StatusResponse(a, AsProcessing(resp))
                /\ attempts'[a].alert = <<>>
                /\ attempts'[a].phase = "timer"
                /\ attempts'[a].timerLeft = 2000
                /\ UNCHANGED <<submitDisabled, submitLabel, processingDisplay, locationHref>>]_vars

C16_Witness ==
    \E a \in Attempts :
        /\ attempts[a].phase = "timer"
        /\ attempts[a].handled = 1
        /\ attempts[a].alert = <<>>
        /\ attempts[a].timerLeft = 2000
        /\ submitDisabled /\ processingDisplay = "block"

(***************************************************************************)
(* C14: the regenerate button is disabled exactly while a regenerate       *)
(* request is in flight; at most one is in flight; whichever way the       *)
(* request settles (success, error status, transport error) the button is  *)
(* enabled again with its idle label.                                      *)
(***************************************************************************)
C14_RegenButtonRestored ==
    /\ regenInflight \in {0, 1}
    /\ regenDisabled <=> (regenInflight = 1)
    /\ (regenLabel = RegenLabelBusy) <=> (regenInflight = 1)
    /\ (regenInflight = 0) => (~regenDisabled /\ regenLabel = RegenLabelIdle)

\* a connection-error panel is on show and the button can be clicked again
C14_Witness ==
    /\ reportContent = ConnectionPanel(FetchFailed)
    /\ regenInflight = 0
    /\ ~regenDisabled

(***************************************************************************)
(* C15: the user and bot messages of the chat log only grow at the end: a  *)
(* step never removes, replaces or reorders one; what a step removes from  *)
(* the log is a typing indicator.                                          *)
(***************************************************************************)
Messages(list) == SelectSeq(list, LAMBDA e : e.kind # "typing")

IsPrefix(s, t) == Len(s) <= Len(t) /\ SubSeq(t, 1, Len(s)) = s

C15_ChatLogAppendOnly ==
    [][IsPrefix(Messages(chatMessages), Messages(chatMessages'))]_vars

\* two requests were in flight and both have settled
C15_Witness ==
    /\ chatSent = 2
    /\ chatInflight = {}
    /\ Len(Messages(chatMessages)) = 4

(***************************************************************************)
(* C17 as stated: when a regenerate request settles, the loading indicator *)
(* is replaced by the report on success, by an error panel that shows the  *)
(* server's error whenever the response carries one, and the unknown-error *)
(* text only when it carries none, by a connection-error panel on a        *)
(* network or parse failure; the toast is shown on success only.           *)
(***************************************************************************)
RegenSettles == regenInflight' = regenInflight - 1

PanelAsStated(resp) ==
    IF resp.kind = "neterr" THEN ConnectionPanel(FetchFailed)
    ELSE IF ~resp.json THEN ConnectionPanel(JsonFailed)
    ELSE IF resp.data.status = <<"success">> THEN ReportHtml(resp.data.report)
    ELSE ErrorPanel(IF resp.data.error = <<>> THEN UnknownError
                    ELSE resp.data.error[1])

ToastFor(resp) ==
    IF resp.kind = "http" /\ resp.json /\ resp.data.status = <<"success">> THEN 1 ELSE 0

C17_ErrorPanelShowsAnyError ==
    [][RegenSettles =>
        \A resp \in RegenResponses :
            RegenResponse(resp) =>
                /\ reportContent' = PanelAsStated(resp)
                /\ toasts' = toasts + ToastFor(resp)]_vars

(***************************************************************************)
(* C17 amended: as above, with the unknown-error text shown when the       *)
(* server's error is absent or empty.                                      *)
(***************************************************************************)
PanelFor(resp) ==
    IF resp.kind = "neterr" THEN ConnectionPanel(FetchFailed)
    ELSE IF ~resp.json THEN ConnectionPanel(JsonFailed)
    ELSE IF resp.data.status = <<"success">> THEN ReportHtml(resp.data.report)
    ELSE ErrorPanel(IF resp.data.error \in {<<>>, <<"">>} THEN UnknownError
                    ELSE resp.data.error[1])

C17_LoadingAlwaysReplaced ==
    [][RegenSettles =>
        /\ reportContent = LoadingPanel
        /\ reportContent' # LoadingPanel
        /\ \E resp \in RegenResponses : RegenResponse(resp)
        /\ \A resp \in RegenResponses :
              RegenResponse(resp) =>
                  /\ reportContent' = PanelFor(resp)
                  /\ toasts' = toasts + ToastFor(resp)]_vars

\* an error panel with the server's message, and no toast
C17_Witness ==
    /\ reportContent = ErrorPanel("X")
    /\ toasts = 0
    /\ regenInflight = 0

(***************************************************************************)
(* C18: the typing indicators in the log are those of the chat requests in *)
(* flight, one each; a request that settles removes its own indicator and  *)
(* appends one bot message: the server's response on success, an error     *)
(* text on an error status, the communication-error text on a transport    *)
(* failure.                                                                *)
(***************************************************************************)
TypingOf(list) == {list[i].req : i \in {j \in DOMAIN list : list[j].kind = "typing"}}

Count(list, kind) == Len(SelectSeq(list, LAMBDA e : e.kind = kind))

BotTextFor(resp) ==
    IF resp.kind = "neterr" \/ ~resp.json THEN CommError
    ELSE IF resp.data.status = <<"success">> THEN <<resp.data.response[1]>>
    ELSE IF resp.data.error \in {<<>>, <<"">>}
         THEN <<"Sorry, I encountered an error: ", "Unknown error", ". Please try again.">>
         ELSE <<"Sorry, I encountered an error: ", resp.data.error[1], ". Please try again.">>

C18_OneBotMessagePerRequest ==
    /\ [](/\ Count(chatMessages, "typing") = Cardinality(chatInflight)
          /\ TypingOf(chatMessages) = chatInflight)
    /\ [][\A req \in chatInflight :
            req \notin chatInflight' =>
                /\ chatInflight' = chatInflight \ {req}
                /\ Count(chatMessages', "bot") = Count(chatMessages, "bot") + 1
                /\ chatMessages'[Len(chatMessages')].kind = "bot"
                /\ \A resp \in ChatResponses :
                      ChatResponse(req, resp) =>
                          chatMessages'[Len(chatMessages')].text = BotTextFor(resp)]_vars

\* the first request settles while the second is still in flight
C18_Witness ==
    /\ chatInflight = {2}
    /\ Count(chatMessages, "bot") = 1
    /\ Count(chatMessages, "typing") = 1

(***************************************************************************)
(* C19: with an empty or whitespace-only input, sendMessage changes        *)
(* nothing and no step sends a request; a request is sent only from an     *)
(* input with text, together with one user message carrying the input      *)
(* without its leading and trailing whitespace and one typing indicator,   *)
(* and the input is cleared.                                               *)
(***************************************************************************)
Blank(s) == \A i \in DOMAIN s : s[i] = " "

Stripped(s) ==
    LET text == {i \in DOMAIN s : s[i] # " "}
        first == CHOOSE i \in text : \A j \in text : i <= j
        last == CHOOSE i \in text : \A j \in text : j <= i
    IN  SubSeq(s, first, last)

C19_BlankInputIsNoOp ==
    [][/\ Blank(userInput) =>
             /\ chatSent' = chatSent
             /\ chatInflight' \subseteq chatInflight
             /\ Count(chatMessages', "user") = Count(chatMessages, "user")
             /\ Count(chatMessages', "typing") <= Count(chatMessages, "typing")
       /\ (sendMessage /\ Blank(userInput)) => UNCHANGED chatVars
       /\ chatSent' # chatSent =>
             /\ ~Blank(userInput)
             /\ chatSent' = chatSent + 1
             /\ chatInflight' = chatInflight \cup {chatSent'}
             /\ chatMessages' = chatMessages \o
                   <<[kind |-> "user", text |-> Stripped(userInput), req |-> 0],
                     [kind |-> "typing", text |-> <<>>, req |-> chatSent + 1] >>
             /\ userInput' = <<>>]_vars

\* a message was sent, and a whitespace-only input is in the field
C19_Witness ==
    /\ chatSent = 1
    /\ Count(chatMessages, "user") = 1
    /\ chatMessages[1].text = <<"a", " ", "a">>
    /\ userInput = <<" ">>

(***************************************************************************)
(* C20: once the chatbot has been toggled, its body is hidden exactly when *)
(* it is minimized and the notification badge is shown exactly when it is  *)
(* minimized; a header click never minimizes an open chatbot; once closed, *)
(* the container is never made visible again.                              *)
(***************************************************************************)
Toggled == bodyDisplay # ""

C20_WidgetConsistent ==
    /\ [](Toggled =>
            /\ bodyDisplay = (IF isChatbotMinimized THEN "none" ELSE "flex")
            /\ notificationDisplay = (IF isChatbotMinimized THEN "flex" ELSE "none")
            /\ minimizedClass = isChatbotMinimized)
    /\ [][HeaderClick => (isChatbotMinimized' => isChatbotMinimized)]_vars
    /\ [][chatbotDisplay = "none" => chatbotDisplay' = "none"]_vars

\* closed, toggled, open again, and the alert timer has fired
C20_Witness ==
    /\ Toggled
    /\ ~isChatbotMinimized
    /\ chatbotDisplay = "none"
    /\ alertTimer = "fired"

(***************************************************************************)
(* C21: at most one timeline segment carries the selection outline, and it *)
(* is the segment held in selectedSegment; none is outlined while          *)
(* selectedSegment is null.                                                *)
(***************************************************************************)
Outlined == {i \in SegmentIds : outline[i] = OutlineSelected}

C21_OutlineIsSelection ==
    /\ Cardinality(Outlined) <= 1
    /\ Outlined = (IF selectedSegment = 0 THEN {} ELSE {selectedSegment})

\* every segment has been selected in turn, the second one last
C21_Witness ==
    /\ selectedSegment = 2
    /\ outline[1] = "none"
    /\ outline[3] = "none"
    /\ outline[2] = OutlineSelected

(***************************************************************************)
(* C22: whenever a step selects a timeline segment (a click, an incident   *)
(* click, playback highlighting), the time stored on the jump-to-segment   *)
(* button is the start time of the segment now selected.                   *)
(***************************************************************************)
C22_JumpTimeIsSelectedStart ==
    [][selectedSegment' # selectedSegment =>
          /\ ~DurationUnavailable
          /\ jumpTime' = <<(Segments[selectedSegment'].startFrame * duration[1])
                             \div TotalFrames>>]_vars

(***************************************************************************)
(* C23: a timeupdate event never seeks or starts the player.  It selects   *)
(* a segment, and rewrites the info panel and the jump time, only when the *)
(* duration is available, some segment's [start_frame, end_frame] holds    *)
(* the current frame and the last such segment in document order is not    *)
(* the selected one; otherwise selection, info panel and jump time stay.   *)
(***************************************************************************)
Holding ==
    {i \in SegmentIds :
        /\ Segments[i].startFrame * duration[1] <= currentTime * TotalFrames
        /\ currentTime * TotalFrames < (Segments[i].endFrame + 1) * duration[1]}

LastHolding == CHOOSE i \in Holding : \A j \in Holding : j <= i

C23_HighlightNeverSeeks ==
    [][TimeUpdate =>
          /\ UNCHANGED <<currentTime, paused, jumpToasts, duration>>
          /\ IF duration = <<>> \/ duration[1] <= 0 THEN UNCHANGED selectionVars
             ELSE IF Holding = {} THEN UNCHANGED selectionVars
             ELSE IF LastHolding = selectedSegment THEN UNCHANGED selectionVars
             ELSE /\ selectedSegment' = LastHolding
                  /\ outline'[LastHolding] = OutlineSelected
                  /\ segmentInfo'.frames = <<Segments[LastHolding].startFrame, " - ",
                                            Segments[LastHolding].endFrame>>
                  /\ segmentInfo'.display = "block"]_vars

\* playback from the start of the video has reached the third segment, which
\* only the highlighting can have selected at this time
C23_Witness ==
    /\ duration = <<8000>>
    /\ selectedSegment = 3
    /\ jumpTime = <<5000>>
    /\ currentTime > 5000
    /\ currentTime < 5500
====
